---- MODULE Spec2Model ----
(***************************************************************************)
(* ElasticHelper (elastic_helper.py): a helper that creates, checks and    *)
(* deletes Elasticsearch indices and bulk-inserts the rows of a pandas     *)
(* DataFrame as documents.                                                 *)
(*                                                                         *)
(* The helper's own code is modelled line by line.  What it calls          *)
(* (pandas' DataFrame.iterrows / Series.to_dict, Python's f-string and     *)
(* str.lower, elasticsearch's indices.create / delete / exists and         *)
(* helpers.parallel_bulk with the default arguments the helper leaves      *)
(* untouched) is modelled by what those calls do.                          *)
(***************************************************************************)
EXTENDS Integers, Sequences, FiniteSets, TLC

VARIABLES
    es,        \* the engine: index name -> index (existence, settings, mappings, documents)
    pc,        \* where the calling thread is: "idle", "bulk" (inside bulk_insert's for loop), "closing"
    bulk,      \* the parallel_bulk call in progress, or the last one finished
    log,       \* what the current (or last) helper call printed
    ret,       \* how the last helper call ended: its arguments, return value or exception
    reqs,      \* the requests the current (or last) helper call sent to the engine
    everExisted, \* history: index name -> whether an index of that name ever existed
    gen        \* a _doc_generator generator object being iterated on its own

vars == <<es, pc, bulk, log, ret, reqs, everExisted, gen>>

(***************************************************************************)
(* Bounds of the model.                                                    *)
(***************************************************************************)
\* the longest DataFrame handed to bulk_insert
MaxRows == 2
\* the longest DataFrame handed to _doc_generator when it is iterated on its own
MaxGenRows == 2
\* parallel_bulk's chunk_size (500 by default), scaled down
ChunkSize == 1
\* parallel_bulk's thread_count (4 by default), scaled down
ThreadCount == 2

(***************************************************************************)
(* Python values: a cell of a DataFrame is an int (int64), a float         *)
(* (float64) or a str.  A number is e * 2^53 + v with e 0 or 1, so that    *)
(* integers on both sides of 2^53, where float64 stops holding every       *)
(* integer, are at hand; a float is represented by the integer it equals   *)
(* (FloatV(1) is 1.0).                                                     *)
(***************************************************************************)
IntV(i) == [t |-> "int", e |-> 0, v |-> i]
\* the int 2^53 + i, for a small i >= 0
BigIntV(i) == [t |-> "int", e |-> 1, v |-> i]
FloatV(i) == [t |-> "float", e |-> 0, v |-> i]
StrV(s) == [t |-> "str", e |-> 0, v |-> s]

Digit(d) ==
    CASE d = 0 -> "0" [] d = 1 -> "1" [] d = 2 -> "2" [] d = 3 -> "3" [] d = 4 -> "4"
      [] d = 5 -> "5" [] d = 6 -> "6" [] d = 7 -> "7" [] d = 8 -> "8" [] d = 9 -> "9"

RECURSIVE IntStr(_)
IntStr(n) ==
    IF n < 0 THEN "-" \o IntStr(-n)
    ELSE IF n < 10 THEN Digit(n)
    ELSE IntStr(n \div 10) \o Digit(n % 10)

\* the decimal digits of e * 2^53 + v (2^53 = 9007199254740992), for v < 259008
NumStr(e, v) == IF e = 0 THEN IntStr(v) ELSE "9007199254" \o IntStr(740992 + v)

\* f"{value}": str() of a numpy int64, of a numpy float64 holding an integer, of a str
FormatValue(x) ==
    CASE x.t = "int" -> NumStr(x.e, x.v)
      [] x.t = "float" -> NumStr(x.e, x.v) \o ".0"
      [] x.t = "str" -> x.v

(***************************************************************************)
(* pandas.  A DataFrame is the sequence of its rows, each a record over    *)
(* the columns; a column is int64 when all its cells are ints, float64     *)
(* when all are floats, object otherwise.                                  *)
(***************************************************************************)
Columns == {"SNo", "val"}

ColumnDtype(df, c) ==
    IF \A k \in 1..Len(df) : df[k][c].t = "int" THEN "int64"
    ELSE IF \A k \in 1..Len(df) : df[k][c].t = "float" THEN "float64"
    ELSE "object"

\* the dtype of the Series iterrows builds for a row: the common type of the columns
RowDtype(df) ==
    LET dts == {ColumnDtype(df, c) : c \in Columns}
    IN  IF dts = {"int64"} THEN "int64"
        ELSE IF dts \subseteq {"int64", "float64"} THEN "float64"
        ELSE "object"

\* int64 -> float64: exact below 2^53; from 2^53 to 2^54 the floats are the even
\* integers and an odd one rounds to the neighbour with the even mantissa
ToFloat(x) ==
    [t |-> "float", e |-> x.e,
     v |-> IF x.e = 0 \/ x.v % 2 = 0 THEN x.v
           ELSE IF ((x.v - 1) \div 2) % 2 = 0 THEN x.v - 1 ELSE x.v + 1]

\* a cell as it appears in the row Series: an int in a float64 Series is upcast
CastCell(x, dtype) ==
    IF dtype = "float64" /\ x.t = "int" THEN ToFloat(x) ELSE x

\* df.iterrows(): (index label, Series) for each row, in order
IterRows(df) ==
    [k \in 1..Len(df) |->
        [index |-> k - 1,
         series |-> [c \in Columns |-> CastCell(df[k][c], RowDtype(df))]]]

\* Series.to_dict(): the mapping column -> value of the Series
ToDict(series) == [c \in DOMAIN series |-> series[c]]

(***************************************************************************)
(* ElasticHelper._doc_generator                                            *)
(***************************************************************************)
DocOf(index_name, document, doc_id) ==
    [_index |-> index_name,
     _id |-> FormatValue(document[doc_id]),
     _source |-> ToDict(document)]

\* the sequence of dictionaries the generator yields when run to exhaustion
DocGenerator(index_name, df, doc_id) ==
    LET df_iter == IterRows(df)
    IN  [k \in 1..Len(df_iter) |-> DocOf(index_name, df_iter[k].series, doc_id)]

(***************************************************************************)
(* Inputs.                                                                 *)
(***************************************************************************)
IndexNames == {"test"}
SNoValues == {1, 2}
\* a DataFrame with an object column: SNo int64, val str
MixedRows == [SNo : {IntV(i) : i \in SNoValues}, val : {StrV("a"), StrV("7")}]
\* an all-numeric DataFrame: SNo int64, val float64
NumericRows == [SNo : {IntV(i) : i \in SNoValues}, val : {FloatV(1)}]

SeqsUpTo(S, n) == UNION {[1..m -> S] : m \in 0..n}
Frames(n) == SeqsUpTo(MixedRows, n) \cup SeqsUpTo(NumericRows, n)

\* the same with ids beyond 2^53 (2^53 + 1, 2^53 + 2) in column SNo
GenSNo == {IntV(i) : i \in SNoValues} \cup {BigIntV(1), BigIntV(2)}
GenFrames(n) ==
    SeqsUpTo([SNo : GenSNo, val : {StrV("a")}], n)
        \cup SeqsUpTo([SNo : GenSNo, val : {FloatV(1)}], n)

(***************************************************************************)
(* A generator object of _doc_generator, iterated on its own: it is lazy,  *)
(* each next() runs the loop body once.                                    *)
(***************************************************************************)
NoGen == [index_name |-> "", df |-> <<>>, doc_id |-> "", pos |-> 0, out |-> <<>>,
          done |-> TRUE, prev |-> <<>>, runs |-> 0]

GenNames == {"test", "other"}

\* helper._doc_generator(index_name, df, doc_id): nothing runs until the first next()
GenCall(index_name, df, doc_id) ==
    [index_name |-> index_name, df |-> df, doc_id |-> doc_id, pos |-> 0, out |-> <<>>,
     done |-> FALSE, prev |-> <<>>, runs |-> 1]

\* next(generator): yields the next dictionary, or ends (StopIteration)
GenNext ==
    /\ ~gen.done
    /\ LET df_iter == IterRows(gen.df)
       IN  IF gen.pos < Len(df_iter)
           THEN gen' = [gen EXCEPT
                          !.pos = gen.pos + 1,
                          !.out = Append(gen.out, DocOf(gen.index_name,
                                             df_iter[gen.pos + 1].series, gen.doc_id))]
           ELSE gen' = [gen EXCEPT !.done = TRUE]
    /\ UNCHANGED <<es, pc, bulk, log, ret, reqs, everExisted>>

\* the exhausted generator yields nothing more; the caller invokes _doc_generator again
GenReinvoke ==
    /\ gen.done
    /\ gen.runs = 1
    /\ gen' = [gen EXCEPT !.pos = 0, !.out = <<>>, !.done = FALSE,
                          !.prev = gen.out, !.runs = 2]
    /\ UNCHANGED <<es, pc, bulk, log, ret, reqs, everExisted>>

(***************************************************************************)
(* The engine (Elasticsearch) as the helper's requests see it.  An index   *)
(* has settings, the mapped type of the field val, and documents by _id.   *)
(***************************************************************************)
NoDocs == <<>>

NoIndex ==
    [exists |-> FALSE, origin |-> "none", number_of_shards |-> 0,
     number_of_replicas |-> 0, valType |-> "none", docs |-> NoDocs]

\* the mappings a caller of create_index supplies: the type of the field val
Mappings == {"keyword", "integer"}

\* PUT /<index>: the engine refuses a name that is taken
IndicesCreate(e, index, body) ==
    IF e[index].exists
    THEN [es |-> e, exc |-> "BadRequestError(400, resource_already_exists_exception)"]
    ELSE [es |-> [e EXCEPT ![index] =
                    [exists |-> TRUE, origin |-> "create_index",
                     number_of_shards |-> body.settings.number_of_shards,
                     number_of_replicas |-> body.settings.number_of_replicas,
                     valType |-> body.mappings, docs |-> NoDocs]],
          exc |-> "none"]

\* DELETE /<index>: the engine refuses a name that has no index
IndicesDelete(e, index) ==
    IF e[index].exists
    THEN [es |-> [e EXCEPT ![index] = NoIndex], exc |-> "none"]
    ELSE [es |-> e, exc |-> "NotFoundError(404, index_not_found_exception)"]

\* HEAD /<index>
IndicesExists(e, index) == e[index].exists

\* a bulk write to a missing index creates it (action.auto_create_index, on by
\* default) with the engine's default settings and no explicit mappings
AutoCreate(idx) ==
    IF idx.exists THEN idx
    ELSE [exists |-> TRUE, origin |-> "auto_create", number_of_shards |-> 1,
          number_of_replicas |-> 1, valType |-> "unmapped", docs |-> NoDocs]

NumericStrings == {IntStr(i) : i \in 0..9}

\* whether a field of the mapped type takes the value (numeric fields coerce
\* numeric strings; text and keyword fields take anything)
FieldAccepts(valType, x) ==
    CASE valType \in {"unmapped", "keyword", "text"} -> TRUE
      [] valType \in {"integer", "long", "float"} ->
            x.t \in {"int", "float"} \/ (x.t = "str" /\ x.v \in NumericStrings)

\* dynamic mapping: the first value of an unmapped field fixes its type
DynamicType(valType, x) ==
    IF valType # "unmapped" THEN valType
    ELSE CASE x.t = "str" -> "text" [] x.t = "float" -> "float" [] x.t = "int" -> "long"

\* one "index" action of a bulk request against its index: the item of the response
\* and the index afterwards.  A document whose _id is taken replaces that document.
IndexDoc(idx0, action) ==
    LET idx == AutoCreate(idx0)
        id == action._id
    IN  IF ~FieldAccepts(idx.valType, action._source.val)
        THEN [idx |-> idx,
              item |-> [_id |-> id, status |-> 400, result |-> "mapper_parsing_exception"]]
        ELSE [idx |-> [idx EXCEPT
                        !.valType = DynamicType(idx.valType, action._source.val),
                        !.docs = [i \in DOMAIN idx.docs \cup {id} |->
                                    IF i = id THEN action._source ELSE idx.docs[i]]],
              item |-> IF id \in DOMAIN idx.docs
                       THEN [_id |-> id, status |-> 200, result |-> "updated"]
                       ELSE [_id |-> id, status |-> 201, result |-> "created"]]

\* POST /_bulk with the actions of one chunk, executed in order
RECURSIVE BulkRequest(_, _)
BulkRequest(e, actions) ==
    IF actions = <<>> THEN [es |-> e, items |-> <<>>]
    ELSE LET a == Head(actions)
             r == IndexDoc(e[a._index], a)
             rest == BulkRequest([e EXCEPT ![a._index] = r.idx], Tail(actions))
         IN  [es |-> rest.es, items |-> <<r.item>> \o rest.items]

(***************************************************************************)
(* elasticsearch.helpers.parallel_bulk(client, actions) with its defaults  *)
(* (raise_on_error=True): the actions are cut into chunks, a thread pool   *)
(* sends the chunks, the results come back in chunk order.                 *)
(***************************************************************************)
RECURSIVE ChunkActions(_, _)
ChunkActions(actions, size) ==
    IF Len(actions) = 0 THEN <<>>
    ELSE IF Len(actions) <= size THEN <<actions>>
    ELSE <<SubSeq(actions, 1, size)>> \o ChunkActions(SubSeq(actions, size + 1, Len(actions)), size)

ItemOk(item) == 200 <= item.status /\ item.status < 300

\* _process_bulk_chunk_success: a chunk with a failed item raises BulkIndexError
ChunkRaises(items) == \E k \in 1..Len(items) : ~ItemOk(items[k])

\* what parallel_bulk yields for an item: (ok, {"index": item})
Response(item) == <<ItemOk(item), [index |-> item]>>

NoBulk ==
    [index_name |-> "", df |-> <<>>, doc_id |-> "", chunks |-> <<>>, st |-> <<>>,
     resp |-> <<>>, cons |-> 0, before |-> NoIndex]

NoRet == [op |-> "none", name |-> "", arg |-> <<>>, value |-> "", exc |-> "none"]

(***************************************************************************)
(* ElasticHelper.create_index                                              *)
(***************************************************************************)
\* variant: the create request sent with ignore=400, "create if absent"
create_index_if_absent(index_name, mappings) ==
    /\ pc = "idle"
    /\ LET request_body ==
               [settings |-> [number_of_shards |-> 1, number_of_replicas |-> 1],
                mappings |-> mappings]
           r == IndicesCreate(es, index_name, request_body)
       IN  /\ es' = r.es
           /\ ret' = [op |-> "create_index", name |-> index_name, arg |-> <<mappings>>,
                      value |-> "None", exc |-> "none"]
           /\ everExisted' = [everExisted EXCEPT ![index_name] = @ \/ r.es[index_name].exists]
    /\ reqs' = <<"indices.create">>
    /\ log' = <<>>
    /\ bulk' = NoBulk
    /\ UNCHANGED <<pc, gen>>

create_index(index_name, mappings) ==
    /\ pc = "idle"
    /\ LET request_body ==
               [settings |-> [number_of_shards |-> 1, number_of_replicas |-> 1],
                mappings |-> mappings]
           r == IndicesCreate(es, index_name, request_body)
       IN  /\ es' = r.es
           /\ ret' = [op |-> "create_index", name |-> index_name, arg |-> <<mappings>>,
                      value |-> IF r.exc = "none" THEN "None" ELSE "", exc |-> r.exc]
           /\ everExisted' = [everExisted EXCEPT ![index_name] = @ \/ r.es[index_name].exists]
    /\ reqs' = <<"indices.create">>
    /\ log' = <<>>
    /\ bulk' = NoBulk
    /\ UNCHANGED <<pc, gen>>

(***************************************************************************)
(* ElasticHelper.delete_index.  The operator's answer is a sequence of     *)
(* characters.                                                             *)
(***************************************************************************)
Answers ==
    {<<>>, <<"n">>, <<"N">>, <<"y">>, <<"Y">>, <<"n", "o">>, <<"N", "O">>, <<" ", "n">>,
     <<"n", " ">>}

\* str.lower(), character by character
LowerChar(c) ==
    CASE c = "N" -> "n" [] c = "O" -> "o" [] c = "Y" -> "y" [] OTHER -> c

\* variant: the answer compared as typed, without lower()
LowerForgotten(answer) == answer

\* variant: the answer stripped of blanks as well as lowered
LowerStripped(answer) ==
    SelectSeq([k \in 1..Len(answer) |-> LowerChar(answer[k])], LAMBDA c : c # " ")

Lower(answer) == [k \in 1..Len(answer) |-> LowerChar(answer[k])]

Prompt(index_name) ==
    "WARNING: Being asked to delete " \o index_name \o ", is this correct? (y/n) "

delete_index(index_name, answer) ==
    /\ pc = "idle"
    /\ IF Lower(answer) = <<"n">>
       THEN /\ log' = <<Prompt(index_name), "Interrupted deletion of " \o index_name \o ".">>
            /\ ret' = [op |-> "delete_index", name |-> index_name, arg |-> answer,
                       value |-> "False", exc |-> "none"]
            /\ es' = es
            /\ reqs' = <<>>
       ELSE LET r == IndicesDelete(es, index_name)
            IN  /\ log' = <<Prompt(index_name)>>
                /\ es' = r.es
                /\ reqs' = <<"indices.delete">>
                /\ ret' = [op |-> "delete_index", name |-> index_name, arg |-> answer,
                           value |-> IF r.exc = "none" THEN "True" ELSE "", exc |-> r.exc]
    /\ bulk' = NoBulk
    /\ UNCHANGED <<pc, everExisted, gen>>

(***************************************************************************)
(* ElasticHelper.index_exists                                              *)
(***************************************************************************)
\* variant: existence probed by trying to create the index
index_exists_by_create(index_name) ==
    /\ pc = "idle"
    /\ LET r == IndicesCreate(es, index_name,
                    [settings |-> [number_of_shards |-> 1, number_of_replicas |-> 1],
                     mappings |-> "keyword"])
       IN  /\ es' = r.es
           /\ ret' = [op |-> "index_exists", name |-> index_name, arg |-> <<>>,
                      value |-> IF r.exc = "none" THEN "False" ELSE "True", exc |-> "none"]
           /\ everExisted' = [everExisted EXCEPT ![index_name] = TRUE]
    /\ reqs' = <<"indices.create">>
    /\ log' = <<>>
    /\ bulk' = NoBulk
    /\ UNCHANGED <<pc, gen>>

index_exists(index_name) ==
    /\ pc = "idle"
    /\ ret' = [op |-> "index_exists", name |-> index_name, arg |-> <<>>,
               value |-> IF IndicesExists(es, index_name) THEN "True" ELSE "False",
               exc |-> "none"]
    /\ reqs' = <<"indices.exists">>
    /\ log' = <<>>
    /\ bulk' = NoBulk
    /\ UNCHANGED <<es, pc, everExisted, gen>>

(***************************************************************************)
(* ElasticHelper.bulk_insert.  The call hands the generator to             *)
(* parallel_bulk and iterates over what it yields.                         *)
(***************************************************************************)
DocIds == {"SNo", "val"}

\* the DataFrames and id fields bulk_insert is called with
BulkFrames == Frames(MaxRows)
BulkDocIds == {"SNo"}

bulk_insert(index_name, df, doc_id) ==
    /\ pc = "idle"
    /\ LET chunks == ChunkActions(DocGenerator(index_name, df, doc_id), ChunkSize)
       IN  bulk' = [index_name |-> index_name, df |-> df, doc_id |-> doc_id,
                    chunks |-> chunks,
                    st |-> [i \in 1..Len(chunks) |-> "queued"],
                    resp |-> [i \in 1..Len(chunks) |-> <<>>],
                    cons |-> 1,
                    before |-> es[index_name]]
    /\ pc' = "bulk"
    /\ reqs' = <<>>
    /\ log' = <<>>
    /\ ret' = [op |-> "bulk_insert", name |-> index_name, arg |-> <<doc_id>>,
               value |-> "", exc |-> "running"]
    /\ UNCHANGED <<es, everExisted, gen>>

\* a pool thread takes the next chunk off the queue; at most ThreadCount are busy
WorkerTake(i) ==
    /\ pc \in {"bulk", "closing"}
    /\ bulk.st[i] = "queued"
    /\ \A j \in 1..(i - 1) : bulk.st[j] # "queued"
    /\ Cardinality({j \in 1..Len(bulk.st) : bulk.st[j] = "sent"}) < ThreadCount
    /\ bulk' = [bulk EXCEPT !.st[i] = "sent"]
    /\ reqs' = Append(reqs, "bulk")
    /\ UNCHANGED <<es, pc, log, ret, everExisted, gen>>

\* the engine executes the bulk request of a chunk in flight and answers it
EngineBulk(i) ==
    /\ pc \in {"bulk", "closing"}
    /\ bulk.st[i] = "sent"
    /\ LET r == BulkRequest(es, bulk.chunks[i])
       IN  /\ es' = r.es
           /\ bulk' = [bulk EXCEPT !.st[i] = "done", !.resp[i] = r.items]
           /\ everExisted' = [n \in IndexNames |-> everExisted[n] \/ r.es[n].exists]
    /\ UNCHANGED <<pc, log, ret, reqs, gen>>

\* the statuses the for loop prints: every response that is not 201
Printed(items) ==
    SelectSeq([k \in 1..Len(items) |-> Response(items[k])],
              LAMBDA response : response[2]["index"]["status"] # 201)

\* the for loop receives the next chunk's results, in chunk order: the chunk's
\* BulkIndexError if it had a failed item, else its responses, one by one
BulkConsume ==
    /\ pc = "bulk"
    /\ bulk.cons <= Len(bulk.chunks)
    /\ bulk.st[bulk.cons] = "done"
    /\ IF ChunkRaises(bulk.resp[bulk.cons])
       THEN /\ pc' = "closing"
            /\ UNCHANGED <<bulk, log>>
       ELSE /\ log' = log \o Printed(bulk.resp[bulk.cons])
            /\ bulk' = [bulk EXCEPT !.cons = bulk.cons + 1]
            /\ pc' = pc
    /\ UNCHANGED <<es, ret, reqs, everExisted, gen>>

\* variant: the loop ends once the last chunk is reached, not once it is consumed
BulkReturnEarly ==
    /\ pc = "bulk"
    /\ bulk.cons >= Len(bulk.chunks)
    /\ pc' = "idle"
    /\ ret' = [ret EXCEPT !.value = "None", !.exc = "none"]
    /\ UNCHANGED <<es, bulk, log, reqs, everExisted, gen>>

\* every chunk consumed: the loop ends and bulk_insert returns None
BulkReturn ==
    /\ pc = "bulk"
    /\ bulk.cons > Len(bulk.chunks)
    /\ pc' = "idle"
    /\ ret' = [ret EXCEPT !.value = "None", !.exc = "none"]
    /\ UNCHANGED <<es, bulk, log, reqs, everExisted, gen>>

\* parallel_bulk's finally (pool.close(); pool.join()) waits for the chunks still
\* queued or in flight, then BulkIndexError leaves bulk_insert
BulkRaise ==
    /\ pc = "closing"
    /\ \A i \in 1..Len(bulk.st) : bulk.st[i] = "done"
    /\ pc' = "idle"
    /\ ret' = [ret EXCEPT !.exc = "BulkIndexError"]
    /\ UNCHANGED <<es, bulk, log, reqs, everExisted, gen>>

(***************************************************************************)
(* Specifications.                                                         *)
(***************************************************************************)
Init ==
    /\ es = [n \in IndexNames |-> NoIndex]
    /\ pc = "idle"
    /\ bulk = NoBulk
    /\ log = <<>>
    /\ ret = NoRet
    /\ reqs = <<>>
    /\ everExisted = [n \in IndexNames |-> FALSE]
    /\ gen = NoGen

Next ==
    \/ \E n \in IndexNames, m \in Mappings : create_index(n, m)
    \/ \E n \in IndexNames, a \in Answers : delete_index(n, a)
    \/ \E n \in IndexNames : index_exists(n)
    \/ \E n \in IndexNames, df \in BulkFrames, f \in BulkDocIds : bulk_insert(n, df, f)
    \/ \E i \in 1..Len(bulk.st) : WorkerTake(i)
    \/ \E i \in 1..Len(bulk.st) : EngineBulk(i)
    \/ BulkConsume
    \/ BulkReturn
    \/ BulkRaise

Spec == Init /\ [][Next]_vars

\* _doc_generator iterated on its own, over every small DataFrame and id field
InitGen ==
    /\ es = [n \in IndexNames |-> NoIndex]
    /\ pc = "idle"
    /\ bulk = NoBulk
    /\ log = <<>>
    /\ ret = NoRet
    /\ reqs = <<>>
    /\ everExisted = [n \in IndexNames |-> FALSE]
    /\ \E n \in GenNames, df \in GenFrames(MaxGenRows), f \in DocIds : gen = GenCall(n, df, f)

NextGen ==
    \/ GenNext
    \/ GenReinvoke

SpecGen == InitGen /\ [][NextGen]_vars

(***************************************************************************)
(* Properties.                                                             *)
(***************************************************************************)
Declining == {<<"n">>, <<"N">>}

BulkDone == pc = "idle" /\ ret.op = "bulk_insert"

RECURSIVE Flatten(_)
Flatten(seqs) == IF seqs = <<>> THEN <<>> ELSE Head(seqs) \o Flatten(Tail(seqs))

\* C1: delete_index on an existing collection with the answer "n" or "N" returns
\* False and sends no delete request: the engine (the collection, its documents) is
\* exactly as before and the collection still exists.
C1_DeclineKeepsCollection ==
    [][\A n \in IndexNames, a \in Declining :
          (delete_index(n, a) /\ es[n].exists) =>
              /\ ret'.value = "False"
              /\ ret'.exc = "none"
              /\ reqs' = <<>>
              /\ es' = es
              /\ IndicesExists(es', n)]_vars

C1_Witness ==
    /\ ret.op = "delete_index"
    /\ ret.arg = <<"N">>
    /\ ret.value = "False"
    /\ es[ret.name].exists
    /\ DOMAIN es[ret.name].docs # {}

\* C2 as stated: for every answer other than "n" or "N", delete_index returns True
\* and the collection does not exist afterwards.
C2_AnyOtherAnswerReturnsTrue ==
    [][\A n \in IndexNames, a \in Answers \ Declining :
          delete_index(n, a) => (ret'.value = "True" /\ ~IndicesExists(es', n))]_vars

\* C2 amended: for every answer other than "n" or "N", delete_index sends the delete
\* request and the collection does not exist afterwards; it returns True when the
\* collection existed, and otherwise the engine's not-found error leaves the call.
C2_AnyOtherAnswerDeletes ==
    [][\A n \in IndexNames, a \in Answers \ Declining :
          delete_index(n, a) =>
              /\ reqs' = <<"indices.delete">>
              /\ ~IndicesExists(es', n)
              /\ es[n].exists => (ret'.value = "True" /\ ret'.exc = "none")
              /\ ~es[n].exists =>
                    (ret'.value # "True"
                     /\ ret'.exc = "NotFoundError(404, index_not_found_exception)")]_vars

C2_Witness ==
    /\ ret.op = "delete_index"
    /\ ret.arg = <<" ", "n">>
    /\ ret.value = "True"
    /\ ~es[ret.name].exists
    /\ everExisted[ret.name]

\* C3: when bulk_insert is over it has not raised, and every per-document result
\* whose status is not 201 has been printed.
C3_FailuresOnlyLogged ==
    BulkDone =>
        /\ ret.exc = "none"
        /\ \A i \in 1..Len(bulk.resp) : \A k \in 1..Len(bulk.resp[i]) :
              bulk.resp[i][k].status # 201 =>
                  \E j \in 1..Len(log) : log[j] = Response(bulk.resp[i][k])

\* C4: when bulk_insert is over, every chunk has been answered by the engine and
\* every document of the DataFrame has its per-document result: none is still
\* queued or in flight.
C4_NothingPendingAtReturn ==
    BulkDone =>
        /\ \A i \in 1..Len(bulk.chunks) :
              /\ bulk.st[i] = "done"
              /\ Len(bulk.resp[i]) = Len(bulk.chunks[i])
              /\ \A j \in 1..Len(bulk.chunks[i]) :
                    bulk.resp[i][j]._id = bulk.chunks[i][j]._id
        /\ Len(reqs) = Len(bulk.chunks)
        /\ Len(Flatten(bulk.chunks)) = Len(bulk.df)

C4_Witness ==
    /\ BulkDone
    /\ ret.exc = "none"
    /\ Len(bulk.chunks) >= 2
    /\ Len(bulk.df) >= 2

\* C5: run to its end, _doc_generator has yielded one document per row, in row
\* order, the _id of the k-th being the string form of the id field of the k-th
\* row of the DataFrame; a second invocation yields the same sequence.
C5_OneDocPerRowIdFromRow ==
    gen.done =>
        /\ Len(gen.out) = Len(gen.df)
        /\ \A k \in 1..Len(gen.out) : gen.out[k]._id = FormatValue(gen.df[k][gen.doc_id])
        /\ gen.runs = 2 => gen.out = gen.prev

\* Python's ==: numbers compare by value whatever their type (1 == 1.0)
PyEq(x, y) ==
    IF x.t = "str" \/ y.t = "str" THEN x = y ELSE x.e = y.e /\ x.v = y.v

\* C6: every document yielded carries the given name as _index and, as _source, the
\* field mapping of its row of the DataFrame: every column, each with a value equal
\* to the row's, so that the row is what the body gives back.
C6_SourceIsTheRow ==
    \A k \in 1..Len(gen.out) :
        /\ gen.out[k]._index = gen.index_name
        /\ DOMAIN gen.out[k]._source = Columns
        /\ \A c \in Columns : PyEq(gen.out[k]._source[c], gen.df[k][c])

\* C7: for a name never created, index_exists returns False; create_index on it
\* succeeds and the name exists right after, so that index_exists called next
\* returns True; index_exists sends only the existence check and leaves the engine
\* as it was.
C7_ExistsAroundCreate ==
    [][\A n \in IndexNames :
          /\ (index_exists(n) /\ ~everExisted[n]) => ret'.value = "False"
          /\ \A m \in Mappings :
                (create_index(n, m) /\ ~everExisted[n]) =>
                    (ret'.exc = "none" /\ IndicesExists(es', n))
          /\ (index_exists(n) /\ ret.op = "create_index" /\ ret.name = n /\ ret.exc = "none")
                => ret'.value = "True"
          /\ index_exists(n) =>
                (es' = es /\ everExisted' = everExisted /\ reqs' = <<"indices.exists">>)]_vars

C7_Witness ==
    /\ ret.op = "index_exists"
    /\ ret.value = "True"
    /\ es[ret.name].origin = "create_index"
    /\ DOMAIN es[ret.name].docs = {}

\* C8: create_index on a name whose collection exists ends with the engine's
\* "already exists" error, not with a normal return, and leaves the engine (the
\* collection's settings, mappings and documents) as it was.
C8_CreateExistingFails ==
    [][\A n \in IndexNames, m \in Mappings :
          (create_index(n, m) /\ es[n].exists) =>
              /\ ret'.exc = "BadRequestError(400, resource_already_exists_exception)"
              /\ ret'.value # "None"
              /\ es' = es]_vars

C8_Witness ==
    /\ ret.op = "create_index"
    /\ ret.exc = "BadRequestError(400, resource_already_exists_exception)"
    /\ DOMAIN es[ret.name].docs # {}
    /\ ret.arg # <<es[ret.name].valType>>

HasDuplicateIds(df, f) ==
    \E j, k \in 1..Len(df) : j < k /\ df[j][f] = df[k][f]

\* C9: when bulk_insert is over for a DataFrame in which two rows share their id
\* value, on a collection that held no document before, it has not raised and the
\* collection holds fewer documents than the DataFrame has rows.
C9_DuplicateIdsOverwrite ==
    (BulkDone /\ HasDuplicateIds(bulk.df, bulk.doc_id) /\ DOMAIN bulk.before.docs = {}) =>
        /\ ret.exc = "none"
        /\ Cardinality(DOMAIN es[bulk.index_name].docs) < Len(bulk.df)

Life(e, ever, n) ==
    IF e[n].exists
    THEN IF DOMAIN e[n].docs = {} THEN "Created" ELSE "Populated"
    ELSE IF ever[n] THEN "Deleted" ELSE "NonExistent"

\* C10: a collection's state changes only NonExistent -> Created and Deleted ->
\* Created by create_index, Created -> Populated by bulk_insert, Created or
\* Populated -> Deleted by a confirmed delete_index; and only a collection made by
\* create_index ever holds documents.
C10_Lifecycle ==
    [][\A n \in IndexNames :
          LET a == Life(es, everExisted, n)
              b == Life(es', everExisted', n)
          IN  /\ a # b =>
                    \/ /\ a \in {"NonExistent", "Deleted"}
                       /\ b = "Created"
                       /\ \E m \in Mappings : create_index(n, m)
                    \/ /\ a = "Created"
                       /\ b = "Populated"
                       /\ \E i \in 1..Len(bulk.st) : EngineBulk(i)
                    \/ /\ a \in {"Created", "Populated"}
                       /\ b = "Deleted"
                       /\ \E ans \in Answers \ Declining : delete_index(n, ans)
              /\ DOMAIN es'[n].docs # {} => es'[n].origin = "create_index"]_vars

====
